---- MODULE Spec2Model ----
(***************************************************************************)
(* Reference resolution pipeline of the citation checker (app.py and       *)
(* modules/api_clients.py): the per-reference cascade check_single_task, *)
(* the source connectors it calls, and the ThreadPoolExecutor dispatch     *)
(* block of the main run handler.                                          *)
(*                                                                         *)
(* External replies (HTTP responses, the local table's best score) are the *)
(* environment's choice; each connector is an operator from the reply to   *)
(* what the connector returns or raises.                                   *)
(***************************************************************************)
EXTENDS Integers, Sequences, FiniteSets, TLC

\* ------------------------------------------------------------------ bounds
\* References in a batch, and clicks of the run button, explored.
NRefs == 2
MaxRuns == 2

\* ThreadPoolExecutor(max_workers=5)
MaxWorkers == 5

None == "None"

\* ------------------------------------------------------------------ text
\* Strings whose characters the code inspects are sequences of characters.
RECURSIVE Count(_, _)
Count(s, ch) ==
    IF s = <<>> THEN 0
    ELSE (IF Head(s) = ch THEN 1 ELSE 0) + Count(Tail(s), ch)

StartsWith(s, p) ==
    /\ Len(s) >= Len(p)
    /\ SubSeq(s, 1, Len(p)) = p

Http == <<"h", "t", "t", "p">>

\* parsed 'url' values: absent, not http, a bare host, a page below the host
NoUrl == <<>>
HostUrl == <<"h", "t", "t", "p", ":", "/", "/", "x">>
PageUrl == <<"h", "t", "t", "p", ":", "/", "/", "x", "/", "p">>
\* the page, as parsed with the full stop that ends the reference
DottedUrl == PageUrl \o <<".">>

\* parsed 'text' values: the reference as pasted, with and without a blank at its end
PlainText == <<"r">>
PaddedText == <<"r", " ">>

\* what the sources hand back: the matched row of the local table, and links
LocalRow == <<"r", "o", "w">>
CrossrefUrl == <<"c", "r">>
ScholarLink == <<"g", "s">>
SimilarLink == <<"s", "i", "m">>

\* What check_single_task reads of a refined reference: whether the title is
\* empty, and whether the search query holds CJK characters; whether a DOI is
\* there; the url.
RefShapes ==
    LET
        FtpUrl == <<"f", "t", "p", ":", "/", "/", "x", "/", "p">>
        Urls == {NoUrl, FtpUrl, HostUrl, PageUrl, DottedUrl}
        TitleKinds == {"", "latin", "cjk"}
    IN
        [title : TitleKinds, doi : BOOLEAN, url : Urls, text : {PaddedText}]

\* str.strip(chars)
RECURSIVE StripChars(_, _)
StripChars(s, chars) ==
    IF s = <<>> THEN s
    ELSE IF Head(s) \in chars THEN StripChars(Tail(s), chars)
    ELSE IF s[Len(s)] \in chars THEN StripChars(SubSeq(s, 1, Len(s) - 1), chars)
    ELSE s

\* ' ,.;)]}>'
Trimmed == {" ", ",", ".", ";", ")", "]", "}", ">"}

\* refine_parsed_data(parsed_item): the refined copy; of what check_single_task
\* reads, the url loses the punctuation around it
refine_parsed_data(parsed_item) ==
    [parsed_item EXCEPT !.url = StripChars(@, Trimmed)]

ParsedItemAliased(parsed_item) == refine_parsed_data(parsed_item)

\* item = parsed_item.copy(): refine_parsed_data writes to the copy, the
\* parsed item is after the call what it was before
ParsedItemAfterRefine(parsed_item) == parsed_item

\* re.search(r'[\u4e00-\u9fff]', search_query)
HasCJK(ref) == ref.title = "cjk"

\* ------------------------------------------------------------------ match evaluator
Letters ==
    <<"a", "b", "c", "d", "e", "f", "g", "h", "i", "j", "k", "l", "m",
      "n", "o", "p", "q", "r", "s", "t", "u", "v", "w", "x", "y", "z">>
Capitals ==
    <<"A", "B", "C", "D", "E", "F", "G", "H", "I", "J", "K", "L", "M",
      "N", "O", "P", "Q", "R", "S", "T", "U", "V", "W", "X", "Y", "Z">>
Digits == {"0", "1", "2", "3", "4", "5", "6", "7", "8", "9"}

\* the CJK ideographs of the samples, each one character named by its code point
Ideographs ==
    {"U+7532", "U+4E59", "U+4E19", "U+4E01", "U+620A", "U+5DF1", "U+5E9A", "U+8F9B",
     "U+58EC", "U+7678"}

Range(s) == {s[k] : k \in 1 .. Len(s)}

\* str.lower(), one character
LowerCh(ch) ==
    IF ch \in Range(Capitals)
    THEN Letters[CHOOSE k \in 1 .. Len(Capitals) : Capitals[k] = ch]
    ELSE ch

Lower(s) == [k \in 1 .. Len(s) |-> LowerCh(s[k])]

\* s[:n]
Prefix(s, n) == SubSeq(s, 1, IF Len(s) < n THEN Len(s) ELSE n)

\* sub in s
Contains(s, sub) ==
    \E k \in 0 .. Len(s) - Len(sub) : SubSeq(s, k + 1, k + Len(sub)) = sub

\* str.split(): the maximal runs of non-blank characters
RECURSIVE SplitWords(_, _)
SplitWords(s, word) ==
    IF s = <<>> THEN (IF word = <<>> THEN <<>> ELSE <<word>>)
    ELSE IF Head(s) = " "
    THEN (IF word = <<>> THEN <<>> ELSE <<word>>) \o SplitWords(Tail(s), <<>>)
    ELSE SplitWords(Tail(s), Append(word, Head(s)))

Words(s) == SplitWords(s, <<>>)

\* " ".join(words)
RECURSIVE JoinWords(_)
JoinWords(ws) ==
    IF ws = <<>> THEN <<>>
    ELSE IF Len(ws) = 1 THEN ws[1]
    ELSE ws[1] \o <<" ">> \o JoinWords(Tail(ws))

\* the characters of unicode category L, N or Z, lowered
RECURSIVE KeepLNZ(_)
KeepLNZ(s) ==
    IF s = <<>> THEN <<>>
    ELSE IF \/ Head(s) \in Range(Letters) \cup Range(Capitals) \cup Ideographs
            \/ Head(s) \in Digits
            \/ Head(s) = " "
    THEN <<LowerCh(Head(s))>> \o KeepLNZ(Tail(s))
    ELSE KeepLNZ(Tail(s))

\* re.sub(r"\s+", " ", ...).strip()
clean_title(text) == JoinWords(Words(KeepLNZ(text)))

RECURSIVE DropNoise(_)
DropNoise(ws) ==
    LET
        \* \b(19|20)\d{2}\b
        IsYear(w) ==
            /\ Len(w) = 4
            /\ <<w[1], w[2]>> \in {<<"1", "9">>, <<"2", "0">>}
            /\ w[3] \in Digits /\ w[4] \in Digits
        NoiseWords ==
            {<<"a", "r", "x", "i", "v">>, <<"b", "i", "o", "r", "x", "i", "v">>,
             <<"a", "v", "a", "i", "l", "a", "b", "l", "e">>, <<"o", "n", "l", "i", "n", "e">>,
             <<"a", "c", "c", "e", "s", "s">>}
    IN
        IF ws = <<>> THEN <<>>
        ELSE IF IsYear(ws[1]) \/ ws[1] \in NoiseWords THEN DropNoise(Tail(ws))
        ELSE <<ws[1]>> \o DropNoise(Tail(ws))

\* remove_noise, on a cleaned title: its words are runs of letters and digits
remove_noise(text) == JoinWords(DropNoise(Words(text)))

Normalize(text) == remove_noise(clean_title(text))

\* the length of the common run of a from i and b from j, below ahi and bhi
RECURSIVE RunLen(_, _, _, _, _, _)
RunLen(a, b, i, j, ahi, bhi) ==
    IF i > ahi \/ j > bhi \/ a[i] # b[j] THEN 0
    ELSE 1 + RunLen(a, b, i + 1, j + 1, ahi, bhi)

\* SequenceMatcher.find_longest_match: the longest block, the earliest in a
\* and then in b among the longest
LongestMatch(a, b, alo, ahi, blo, bhi) ==
    LET
        Range2(f) == {f[c] : c \in DOMAIN f}
    IN
        LET cells == (alo .. ahi) \X (blo .. bhi)
            len == [c \in cells |-> RunLen(a, b, c[1], c[2], ahi, bhi)]
            size == CHOOSE n \in Range2(len) : \A c \in cells : len[c] <= n
            longest == {c \in cells : len[c] = size}
            best == CHOOSE c \in longest :
                        \A d \in longest : c[1] < d[1] \/ (c[1] = d[1] /\ c[2] <= d[2])
        IN IF cells = {} THEN <<alo, blo, 0>> ELSE <<best[1], best[2], size>>

\* the matched characters of SequenceMatcher.get_matching_blocks: the longest
\* block, then the same to its left and to its right
RECURSIVE Matches(_, _, _, _, _, _)
Matches(a, b, alo, ahi, blo, bhi) ==
    LET m == LongestMatch(a, b, alo, ahi, blo, bhi) IN
    IF m[3] = 0 THEN 0
    ELSE m[3] + Matches(a, b, alo, m[1] - 1, blo, m[2] - 1)
              + Matches(a, b, m[1] + m[3], ahi, m[2] + m[3], bhi)

\* SequenceMatcher(None, a, b).ratio() >= num / den; the ratio of two empty
\* strings is 1.0
RatioAtLeast(a, b, num, den) ==
    IF Len(a) + Len(b) = 0 THEN TRUE
    ELSE 2 * Matches(a, b, 1, Len(a), 1, Len(b)) * den >= num * (Len(a) + Len(b))

\* the steps of _is_match after normalization; containment is its step 1
MatchSteps(c_q, c_r, containment) ==
    LET
        StopWords ==
            {<<"a">>, <<"a", "n">>, <<"t", "h", "e">>, <<"o", "f">>, <<"i", "n">>,
             <<"f", "o", "r">>, <<"w", "i", "t", "h">>, <<"o", "n">>, <<"a", "t">>,
             <<"b", "y">>, <<"a", "n", "d">>, <<"f", "r", "o", "m">>, <<"t", "o">>}
    IN
        LET q_words == Range(Words(c_q))
            r_words == Range(Words(c_r))
            missing == {w \in q_words : w \notin StopWords /\ w \notin r_words}
        IN \/ containment /\ 2 * Len(c_q) > 3 * Len(c_r) /\ Contains(c_q, c_r)
           \/ RatioAtLeast(c_q, c_r, 8, 10)
           \/ Cardinality(missing) <= 1 /\ Cardinality(q_words) >= 5
           \/ Cardinality(missing) = 0 /\ 10 * Len(c_q) > 3 * Len(c_r)

is_match_without_containment(query, result) ==
    IF query = <<>> \/ result = <<>> THEN FALSE
    ELSE MatchSteps(Normalize(query), Normalize(result), FALSE)

\* _is_match(query, result)
is_match(query, result) ==
    IF query = <<>> \/ result = <<>> THEN FALSE
    ELSE MatchSteps(Normalize(query), Normalize(result), TRUE)

\* ------------------------------------------------------------------ local table

\* search_local_database(df, title_column, query_title, threshold) on the
\* titles of the column: the row found, 0 for None
LocalSearch(df, query_title, num, den) ==
    LET
        \* a score as numerator and denominator
        Score(clean_query, clean_db_title) ==
            IF Contains(clean_db_title, clean_query) \/ Contains(clean_query, clean_db_title)
            THEN <<1, 1>>
            ELSE <<2 * Matches(clean_query, clean_db_title, 1, Len(clean_query),
                               1, Len(clean_db_title)),
                   Len(clean_query) + Len(clean_db_title)>>
        More(a, b) == a[1] * b[2] > b[1] * a[2]
        AtLeast(a, n, d) == a[1] * d >= n * a[2]
        \* the scores of the rows of the title column against the query
        Scores(rows, q) ==
            [k \in 1 .. Len(rows) |-> Score(clean_title(q), clean_title(rows[k]))]
        \* best_match_row: the first of the rows of the highest score above 0, 0 if none
        BestRow(scores) ==
            LET top == {k \in DOMAIN scores :
                           /\ scores[k][1] > 0
                           /\ \A j \in DOMAIN scores : ~More(scores[j], scores[k])}
            IN IF top = {} THEN 0 ELSE CHOOSE k \in top : \A j \in top : k <= j
    IN
        LET scores == Scores(df.rows, query_title)
            best == BestRow(scores)
        IN IF ~df.loaded \/ query_title = <<>> THEN 0
           ELSE IF best # 0 /\ AtLeast(scores[best], num, den) THEN best
           ELSE 0

ShortTitle == 8
QueryCut == 120

\* re.search(r"[\u4e00-\u9fff]", search_query)
HasIdeograph(s) == \E k \in 1 .. Len(s) : s[k] \in Ideographs

\* search_query = title if (title and len(title) > 8) else text[:120]
FullSearchQuery(title, text) ==
    IF title # <<>> /\ Len(title) > ShortTitle THEN title ELSE Prefix(text, QueryCut)

\* stage 1 of check_single_task, "Local DB": threshold=0.85
LocalStage(title, text, df) ==
    LET attempted == /\ HasIdeograph(FullSearchQuery(title, text))
                     /\ df.loaded /\ title # <<>>
    IN [attempted |-> attempted,
        match_row |-> IF attempted THEN LocalSearch(df, title, 85, 100) ELSE 0]

\* ------------------------------------------------------------------ replies
\* requests.head(url)
HeadReplies == {"transport", "ok", "4xx"}

Connectors ==
    {"search_local_database", "search_crossref_by_doi", "search_crossref_by_text",
     "search_scopus_by_title", "search_scholar_by_title",
     "search_scholar_by_ref_text", "check_url_availability"}

\* What a connector call ends with: a candidate url (NoUrl for None) and a
\* diagnostic, or an exception that leaves the connector.
Ret(url, diag) == [url |-> url, diag |-> diag, raised |-> FALSE]
Raise(what) == [url |-> NoUrl, diag |-> what, raised |-> TRUE]

\* ------------------------------------------------------------------ connectors
search_local_database(df, title, reply) ==
    IF ~df \/ title = "" THEN Ret(NoUrl, "no query")
    ELSE IF reply = "row" THEN Ret(LocalRow, "score")
    ELSE Ret(NoUrl, "0")

search_crossref_by_doi(doi, target_title, reply) ==
    LET
        CrossrefDoiUrl == <<"d", "o", "i">>
    IN
        IF ~doi THEN Ret(NoUrl, "Empty DOI")
        ELSE IF reply = "conn" THEN Ret(NoUrl, "Conn Error")
        ELSE IF reply = "http" THEN Ret(NoUrl, "HTTP status")
        ELSE IF target_title # "" /\ reply = "ok_mismatch" THEN Ret(NoUrl, "DOI Title Mismatch")
        ELSE Ret(CrossrefDoiUrl, "OK")

search_crossref_by_text(title, reply) ==
    IF title = "" THEN Ret(NoUrl, "Empty Title")
    ELSE IF reply = "transport" THEN Ret(NoUrl, "Error")
    ELSE IF reply = "auth" THEN Ret(NoUrl, "Auth Error")
    ELSE IF reply = "ok_empty" THEN Ret(NoUrl, "OK")
    ELSE IF reply = "ok_notitle" THEN Raise("IndexError")
    ELSE IF reply = "ok_match" THEN Ret(CrossrefUrl, "OK")
    ELSE Ret(NoUrl, "Match failed (Title or Author mismatch)")

search_scopus_by_title(api_key, reply) ==
    LET
        ScopusUrl == <<"s", "c">>
    IN
        IF ~api_key THEN Ret(NoUrl, "No API Key")
        ELSE IF reply \in {"transport", "auth"} THEN Ret(NoUrl, "Error")
        ELSE IF reply = "ok_empty" THEN Ret(NoUrl, "(No results found)")
        ELSE IF reply = "ok_match" THEN Ret(ScopusUrl, "OK")
        ELSE IF reply = "ok_nulltitle" THEN Raise("TypeError")
        ELSE Ret(NoUrl, "Title Mismatch")

search_scholar_by_title(api_key, reply) ==
    IF reply = "transport" THEN Raise("ConnectionError")
    ELSE IF reply = "organic_hit" THEN Ret(ScholarLink, "found_title")
    ELSE Ret(NoUrl, "None")

search_scholar_by_ref_text(api_key, target_title, reply) ==
    IF ~api_key THEN Ret(NoUrl, "No API Key")
    ELSE IF reply = "organic_match" THEN Ret(SimilarLink, "similar")
    ELSE IF reply = "organic_mismatch" THEN
        (IF target_title # "" THEN Ret(NoUrl, "Title mismatch in fallback")
         ELSE Ret(SimilarLink, "similar"))
    ELSE Ret(NoUrl, "No results")

check_url_availability(url, reply) ==
    IF url = <<>> \/ ~StartsWith(url, Http) THEN FALSE
    ELSE IF Count(url, "/") < 3 THEN FALSE
    ELSE reply = "ok"

\* ------------------------------------------------------------------ state
VARIABLES
    raw_input,       \* the text area: "" or pasted references
    struct_list,     \* what parse_references_with_anystyle returns for raw_input
    local_df,        \* the local table is loaded
    scopus_key,      \* get_scopus_key() is set
    serpapi_key,     \* get_serpapi_key() is set
    env,             \* env[i][c]: the reply source c gives for reference i, or "any"
    phase,           \* where the run handler stands
    ui,              \* the last message the handler showed
    runs,            \* clicks of the run button so far
    pc,              \* pc[i]: where worker i stands in check_single_task
    res,             \* res[i]: the result dict of worker i
    calls,           \* calls[i]: the connectors worker i invoked, with outcome
    exc,             \* exc[i]: connector calls that raised into check_single_task
    results_buffer,  \* results collected from as_completed
    collected,       \* futures as_completed has yielded
    results,         \* st.session_state.results
    prev,            \* st.session_state.results as the previous run left it
    probe,           \* a function of the pipeline under evaluation: its arguments and result
    parse_raised,    \* the lines of raw_input whose parse raises, how many
    errors           \* the st.error messages of the latest run

vars ==
    <<raw_input, struct_list, local_df, scopus_key, serpapi_key, env,
      phase, ui, runs, pc, res, calls, exc, results_buffer, collected, results, prev,
      probe, parse_raised, errors>>

config ==
    <<raw_input, struct_list, local_df, scopus_key, serpapi_key, env, probe, parse_raised>>

\* all of config but the parsed references
shared == <<raw_input, local_df, scopus_key, serpapi_key, env, probe, parse_raised>>

Workers == 1 .. Len(struct_list)

\* ref = refine_parsed_data(raw_ref)
Ref(i) == refine_parsed_data(struct_list[i])

Finished == {"returned", "raised"}

\* res = {"id": idx, ..., "sources": {}, "found_at_step": None, "suggestion": None}
NewRes(idx) ==
    [id |-> idx, text |-> Ref(idx).text, sources |-> {}, found_at_step |-> None,
     suggestion |-> NoUrl]

\* search_query = title if (title and len(title) > 8) else text[:120]
SearchQuery(ref) == IF ref.title # "" THEN ref.title ELSE "text"

\* res.update({"sources": {name: url}, "found_at_step": step})
Update(r, name, url, step) ==
    [r EXCEPT !.sources = {<<name, url>>}, !.found_at_step = step]

\* ------------------------------------------------------------------ stages
\* Each stage of check_single_task: the result and the next position, from
\* what the connector returned.
LocalStep(r, out) ==
    IF out.url # NoUrl
    THEN [res |-> Update(r, "Local DB", LocalRow, "0. Local Database"), pc |-> "returned"]
    ELSE [res |-> r, pc |-> "doi"]

DoiStep(r, out) ==
    IF out.url # NoUrl
    THEN [res |-> Update(r, "Crossref", out.url, "1. Crossref (DOI)"), pc |-> "returned"]
    ELSE [res |-> r, pc |-> "text"]

TextStepFallsThrough(r, out) ==
    IF out.raised THEN [res |-> r, pc |-> "raised"]
    ELSE IF out.url # NoUrl
    THEN [res |-> Update(r, "Crossref", out.url, "1. Crossref (Search)"), pc |-> "scopus"]
    ELSE [res |-> r, pc |-> "scopus"]

TextStepLabelledDoi(r, out) ==
    IF out.raised THEN [res |-> r, pc |-> "raised"]
    ELSE IF out.url # NoUrl
    THEN [res |-> Update(r, "Crossref", out.url, "1. Crossref (DOI)"), pc |-> "returned"]
    ELSE [res |-> r, pc |-> "scopus"]

TextStep(r, out) ==
    IF out.raised THEN [res |-> r, pc |-> "raised"]
    ELSE IF out.url # NoUrl
    THEN [res |-> Update(r, "Crossref", out.url, "1. Crossref (Search)"), pc |-> "returned"]
    ELSE [res |-> r, pc |-> "scopus"]

ScopusStep(r, out) ==
    IF out.raised THEN [res |-> r, pc |-> "raised"]
    ELSE IF out.url # NoUrl
    THEN [res |-> Update(r, "Scopus", out.url, "2. Scopus"), pc |-> "returned"]
    ELSE [res |-> r, pc |-> "scholar"]

ScholarStepFallsThrough(r, out) ==
    IF out.raised THEN [res |-> r, pc |-> "suggestion"]
    ELSE IF out.url # NoUrl
    THEN [res |-> Update(r, "Google Scholar", out.url, "5. Google Scholar"), pc |-> "suggestion"]
    ELSE [res |-> r, pc |-> "suggestion"]

\* the try/except around api_func() swallows what the connector raises
ScholarStep(r, out) ==
    IF out.raised THEN [res |-> r, pc |-> "suggestion"]
    ELSE IF out.url # NoUrl
    THEN [res |-> Update(r, "Google Scholar", out.url, "5. Google Scholar"), pc |-> "returned"]
    ELSE [res |-> r, pc |-> "suggestion"]

SuggestionStepAsSource(r, out) ==
    IF out.url # NoUrl
    THEN [res |-> Update(r, "Google Scholar", out.url, "5. Google Scholar"), pc |-> "website"]
    ELSE [res |-> r, pc |-> "website"]

SuggestionStep(r, out) ==
    IF out.url # NoUrl
    THEN [res |-> [r EXCEPT !.suggestion = out.url], pc |-> "website"]
    ELSE [res |-> r, pc |-> "website"]

WebsiteStepDeadUnlabelled(r, parsed_url, ok) ==
    IF ok
    THEN [res |-> Update(r, "Direct Link", parsed_url, "6. Website / Direct URL"), pc |-> "returned"]
    ELSE [res |-> [r EXCEPT !.sources = {<<"Direct Link (Dead)", parsed_url>>}], pc |-> "returned"]

WebsiteStepDeadAsLive(r, parsed_url, ok) ==
    [res |-> Update(r, "Direct Link", parsed_url, "6. Website / Direct URL"), pc |-> "returned"]

WebsiteStep(r, parsed_url, ok) ==
    IF ok
    THEN [res |-> Update(r, "Direct Link", parsed_url, "6. Website / Direct URL"), pc |-> "returned"]
    ELSE [res |-> Update(r, "Direct Link (Dead)", parsed_url, "6. Website (Link Failed)"), pc |-> "returned"]

\* ------------------------------------------------------------------ sorting
RECURSIVE InsertById(_, _)
InsertById(x, s) ==
    IF s = <<>> THEN <<x>>
    ELSE IF x.id < Head(s).id THEN <<x>> \o s
    ELSE <<Head(s)>> \o InsertById(x, Tail(s))

Unsorted(buf) == buf

\* sorted(results_buffer, key=lambda x: x['id'])
RECURSIVE SortById(_)
SortById(buf) ==
    IF buf = <<>> THEN <<>>
    ELSE InsertById(buf[Len(buf)], SortById(SubSeq(buf, 1, Len(buf) - 1)))

\* ------------------------------------------------------------------ Scholar fingerprint search
MaxOrganic == 4
TitleCut == 60

\* the first index from k on that holds no blank
RECURSIVE SkipBlanks(_, _)
SkipBlanks(s, k) == IF k <= Len(s) /\ s[k] = " " THEN SkipBlanks(s, k + 1) ELSE k

\* the end of a match of (ICAIT|CVPR|nips|arxiv|IEEE|ACM)\s*20\d{2} from k, 0 if none
ConferenceEnd(s, k) ==
    LET
        ConferenceNames ==
            {<<"i", "c", "a", "i", "t">>, <<"c", "v", "p", "r">>, <<"n", "i", "p", "s">>, <<"a", "r", "x", "i", "v">>, <<"i", "e", "e", "e">>, <<"a", "c", "m">>}
    IN
        LET names == {n \in ConferenceNames :
                         /\ k + Len(n) - 1 <= Len(s)
                         /\ Lower(SubSeq(s, k, k + Len(n) - 1)) = n}
            n == CHOOSE n \in names : TRUE
            y == SkipBlanks(s, k + Len(n))
        IN IF names = {} THEN 0
           ELSE IF /\ y + 3 <= Len(s)
                   /\ s[y] = "2" /\ s[y + 1] = "0"
                   /\ s[y + 2] \in Digits /\ s[y + 3] \in Digits
           THEN y + 3
           ELSE 0

\* re.search(...).group(0) on the raw text, "" without a match
Conference(raw_text) ==
    LET starts == {k \in 1 .. Len(raw_text) : ConferenceEnd(raw_text, k) # 0}
        k == CHOOSE k \in starts : \A l \in starts : k <= l
    IN IF starts = {} THEN <<>> ELSE SubSeq(raw_text, k, ConferenceEnd(raw_text, k))

\* re.sub(r"[^\w\s]", "", title)
RECURSIVE KeepWordChars(_)
KeepWordChars(s) ==
    IF s = <<>> THEN <<>>
    ELSE IF \/ Head(s) \in Range(Letters) \cup Range(Capitals)
            \/ Head(s) \in Digits \cup {"_", " "}
    THEN <<Head(s)>> \o KeepWordChars(Tail(s))
    ELSE KeepWordChars(Tail(s))

\* str.strip() of blanks
RECURSIVE StripLeft(_)
StripLeft(s) == IF s # <<>> /\ Head(s) = " " THEN StripLeft(Tail(s)) ELSE s

RECURSIVE StripRight(_)
StripRight(s) ==
    IF s # <<>> /\ s[Len(s)] = " " THEN StripRight(SubSeq(s, 1, Len(s) - 1)) ELSE s

Strip(s) == StripRight(StripLeft(s))

\* the fingerprint query: the title's first characters, the author, the conference
FingerprintQuery(title, author, raw_text) ==
    Strip(Prefix(KeepWordChars(title), TitleCut) \o <<" ">> \o author \o <<" ">>
          \o Conference(raw_text))

\* all(k.lower() in found_title.lower() for k in keywords[:2])
HoldsKeywords(found_title) ==
    LET
        Keywords == <<<<"R", "A", "G">>, <<"D", "o", "c", "u", "m", "e", "n", "t">>, <<"A", "u", "t", "o", "m", "a", "t", "i", "o", "n">>>>
    IN
        \A k \in 1 .. 2 : Contains(Lower(found_title), Lower(Keywords[k]))

\* the first of the first three organic results whose title holds the keywords, 0 if none
FirstAccepted(organic) ==
    LET hits == {k \in 1 .. Len(Prefix(organic, 3)) : HoldsKeywords(organic[k].title)}
    IN IF hits = {} THEN 0 ELSE CHOOSE k \in hits : \A l \in hits : k <= l

\* search_scholar_by_title(title, api_key, author, raw_text) against the reply of
\* its search: the queries it issued and what it returned
ScholarByTitle(title, author, raw_text, reply) ==
    LET queries == <<FingerprintQuery(title, author, raw_text)>>
        organic == reply.organic_results
        k == IF reply.kind = "organic" THEN FirstAccepted(organic) ELSE 0
    IN IF reply.kind = "transport"
       THEN [queries |-> queries, raised |-> TRUE, link |-> NoUrl, found_title |-> <<>>]
       ELSE IF k = 0
       THEN [queries |-> queries, raised |-> FALSE, link |-> NoUrl, found_title |-> <<>>]
       ELSE [queries |-> queries, raised |-> FALSE,
             link |-> organic[k].link, found_title |-> organic[k].title]

\* ------------------------------------------------------------------ author match
\* re.split(r"[, ]", s)[0]: what precedes the first comma or blank
RECURSIVE FirstToken(_)
FirstToken(s) ==
    IF s = <<>> \/ Head(s) \in {",", " "} THEN <<>>
    ELSE <<Head(s)>> \o FirstToken(Tail(s))

\* a candidate author is a plain string (text) or a dict: family stands for
\* its 'family', 'surname' or 'ce:surname', name for its 'name' or 'authname',
\* and <<>> for a key that is absent or empty
PlainAuthor(text) ==
    [kind |-> "str", text |-> text, family |-> <<>>, given |-> <<>>, name |-> <<>>]
DictAuthor(family, given, name) ==
    [kind |-> "dict", text |-> <<>>, family |-> family, given |-> given, name |-> name]

RECURSIVE FormattedResults(_, _)
FormattedResults(result_authors_list, lowered) ==
    IF result_authors_list = <<>> THEN <<>>
    ELSE LET auth == Head(result_authors_list)
             fmt(x) == IF lowered THEN Lower(x) ELSE x
         IN (IF auth.kind = "dict" THEN <<fmt(auth.family), fmt(auth.name)>>
             ELSE <<fmt(auth.text)>>)
            \o FormattedResults(Tail(result_authors_list), lowered)

AuthorMatch(query_author, result_authors_list, lowered) ==
    LET q_family == Strip(Lower(FirstToken(Strip(query_author))))
        formatted_results == FormattedResults(result_authors_list, lowered)
    IN IF query_author = <<>> \/ Len(query_author) < 2 THEN TRUE
       ELSE IF q_family = <<>> THEN TRUE
       ELSE \E k \in 1 .. Len(formatted_results) : Contains(formatted_results[k], q_family)

check_author_match_case_sensitive(query_author, result_authors_list) ==
    AuthorMatch(query_author, result_authors_list, FALSE)

\* _check_author_match(query_author, result_authors_list)
check_author_match(query_author, result_authors_list) ==
    AuthorMatch(query_author, result_authors_list, TRUE)

\* ------------------------------------------------------------------ refine_parsed_data in full
\* A parsed item by the keys refine_parsed_data reads but 'authors' and
\* 'editor'; <<>> stands for a key that is absent or empty.
Min(S) == CHOOSE k \in S : \A l \in S : k <= l

\* the first index from k on whose character is not in chars
RECURSIVE RunEnd(_, _, _)
RunEnd(s, k, chars) ==
    IF k <= Len(s) /\ s[k] \in chars THEN RunEnd(s, k + 1, chars) ELSE k

\* the first index of the run of chars that ends before k
RECURSIVE RunStart(_, _, _)
RunStart(s, k, chars) ==
    IF k > 1 /\ s[k - 1] \in chars THEN RunStart(s, k - 1, chars) ELSE k

From(s, k) == SubSeq(s, k, Len(s))
At(s, k, w) == k >= 1 /\ k + Len(w) - 1 <= Len(s) /\ SubSeq(s, k, k + Len(w) - 1) = w
AllDigits(s) == \A k \in 1 .. Len(s) : s[k] \in Digits
FourDigits(s, k) == k >= 1 /\ k + 3 <= Len(s) /\ AllDigits(SubSeq(s, k, k + 3))
WordChars == Range(Letters) \cup Range(Capitals) \cup Digits \cup {"_"}

NoMatch == [found |-> FALSE, group |-> <<>>]
Match(group) == [found |-> TRUE, group |-> group]

\* re.search(r"^&(?:amp;)?\s*[^0-9]+?\(?\d{4}\)?[\.\s]+(.*)", title): what
\* "(?:amp;)?", "\s*" and "\(?" match, "[^0-9]+?" matches too, so the match
\* is "&", one or more characters that are no digits, four digits, ")" or
\* not, one or more full stops and blanks, and the rest
AuthorResidue(title) ==
    LET digs == {k \in 2 .. Len(title) : title[k] \in Digits}
        d == Min(digs)
        p == IF d + 4 <= Len(title) /\ title[d + 4] = ")" THEN d + 5 ELSE d + 4
        r == RunEnd(title, p, {".", " "})
    IN IF /\ title # <<>> /\ title[1] = "&"
          /\ digs # {} /\ d >= 3 /\ FourDigits(title, d) /\ r > p
       THEN Match(From(title, r))
       ELSE NoMatch

\* Patch 1: the residue of the second author
Patch1(title) ==
    LET fix_match == AuthorResidue(title)
        cleaned_title == Strip(fix_match.group)
    IN IF /\ title # <<>>
          /\ title[1] = "&" \/ StartsWith(Lower(title), <<"a", "n", "d", " ">>)
          /\ fix_match.found
          /\ Len(cleaned_title) > 5
       THEN cleaned_title
       ELSE title

\* re.sub(r"(?i)\.?\s*word.*$", "", title): the title up to the first word,
\* the blanks before it and the full stop before them
CutFrom(title, word) ==
    LET
        AtLower(s, k, w) ==
            k >= 1 /\ k + Len(w) - 1 <= Len(s) /\ Lower(SubSeq(s, k, k + Len(w) - 1)) = w
    IN
        LET occ == {a \in 1 .. Len(title) : AtLower(title, a, word)}
            b == RunStart(title, Min(occ), {" "})
            i == IF b > 1 /\ title[b - 1] = "." THEN b - 1 ELSE b
        IN IF occ = {} THEN title ELSE SubSeq(title, 1, i - 1)

CutNoise(title) ==
    CutFrom(CutFrom(title, <<"a", "r", "x", "i", "v">>),
            <<"a", "v", "a", "i", "l", "a", "b", "l", "e">>)

\* Patch 2: the noise around the title
Patch2(title) ==
    LET
        \* re.sub(r"^\s*\d{4}[\.\s]+", "", title)
        StripLeadingYear(t) ==
            LET w == RunEnd(t, 1, {" "})
                r == RunEnd(t, w + 4, {".", " "})
            IN IF FourDigits(t, w) /\ r > w + 4 THEN From(t, r) ELSE t
    IN
        IF title # <<>> THEN CutNoise(StripLeadingYear(title)) ELSE title

\* Pattern A: re.search(r"^([A-Z0-9\-\.\s]{2,12}:\s*.+?)(?=...)", raw_text)
AbbrMatch(raw_text) ==
    LET
        AbbrChars == Range(Capitals) \cup Digits \cup {"-", ".", " "}
        \* (?=\s*[,\[]|\s*Available|\s*\(|\bhttps?://|\.|$) at index e
        AbbrStop(s, e) ==
            LET t == RunEnd(s, e, {" "}) IN
            \/ t <= Len(s) /\ s[t] \in {",", "[", "("}
            \/ At(s, t, <<"A", "v", "a", "i", "l", "a", "b", "l", "e">>)
            \/ /\ e = 1 \/ s[e - 1] \notin WordChars
               /\ \/ At(s, e, <<"h", "t", "t", "p", ":", "/", "/">>)
                  \/ At(s, e, <<"h", "t", "t", "p", "s", ":", "/", "/">>)
            \/ e <= Len(s) /\ s[e] = "."
            \/ e = Len(s) + 1
    IN
        LET colons == {k \in 1 .. Len(raw_text) : raw_text[k] = ":"}
            c == Min(colons)
            s == RunEnd(raw_text, c + 1, {" "})
            ends == {e \in s + 1 .. Len(raw_text) + 1 : AbbrStop(raw_text, e)}
        IN IF /\ colons # {} /\ c - 1 \in 2 .. 12
              /\ \A k \in 1 .. c - 1 : raw_text[k] \in AbbrChars
           THEN IF s <= Len(raw_text) THEN Match(SubSeq(raw_text, 1, Min(ends) - 1))
                ELSE IF s > c + 1 THEN Match(raw_text)
                ELSE NoMatch
           ELSE NoMatch

\* Pattern B: the first of publisher, container-title and journal longer than 15
BackupTitle(item) ==
    LET vals == <<item.publisher, item.container_title, item.journal>>
        long == {k \in 1 .. 3 : Len(vals[k]) > 15}
    IN IF long = {} THEN NoMatch ELSE Match(Strip(vals[Min(long)]))

\* Pattern C: the text after the year, when the title is still empty
YearTitle(item, raw_text, title) ==
    LET
        \* re.search(rf"{year_str}\W+\s*(.+)", raw_text)
        YearTail(s, year_str) ==
            LET nonword == Range(s) \ WordChars
                after(k) == k + Len(year_str)
                w(k) == RunEnd(s, after(k), nonword)
                occ == {k \in 1 .. Len(s) :
                           /\ At(s, k, year_str)
                           /\ w(k) > after(k)
                           /\ w(k) <= Len(s) \/ w(k) - after(k) >= 2}
                k == Min(occ)
            IN IF occ = {} THEN NoMatch
               ELSE IF w(k) <= Len(s) THEN Match(From(s, w(k)))
               ELSE Match(<<s[Len(s)]>>)
        NA == <<"N", "/", "A">>
    IN
        LET year_str == Prefix(item.date, 4)
            fallback_match == YearTail(raw_text, year_str)
            candidate == CutNoise(Strip(fallback_match.group))
        IN IF /\ title = <<>> \/ title = NA
              /\ item.date # <<>>
              /\ AllDigits(year_str)
              /\ fallback_match.found
              /\ Len(candidate) > 5
           THEN StripChars(candidate, {" ", "."})
           ELSE title

\* 2. the title salvaged when it is empty or short
Salvage(item, raw_text, title) ==
    LET abbr_match == AbbrMatch(raw_text)
        backup == BackupTitle(item)
        patched == IF abbr_match.found THEN Strip(abbr_match.group)
                   ELSE IF backup.found THEN backup.group
                   ELSE title
    IN IF title = <<>> \/ Len(title) < 5 THEN YearTitle(item, raw_text, patched)
       ELSE title

\* re.search(r"(10\.\d{4,9}/[-._;()/:a-zA-Z0-9]+)", url_val)
DoiInUrl(url_val) ==
    LET
        DoiChars ==
            Range(Letters) \cup Range(Capitals) \cup Digits \cup {"-", ".", "_", ";", "(", ")", "/", ":"}
    IN
        LET slash(k) == RunEnd(url_val, k + 3, Digits)
            end(k) == RunEnd(url_val, slash(k) + 1, DoiChars)
            occ == {k \in 1 .. Len(url_val) :
                       /\ At(url_val, k, <<"1", "0", ".">>)
                       /\ slash(k) - (k + 3) \in 4 .. 9
                       /\ slash(k) <= Len(url_val) /\ url_val[slash(k)] = "/"
                       /\ end(k) > slash(k) + 1}
            k == Min(occ)
        IN IF occ = {} THEN NoMatch ELSE Match(SubSeq(url_val, k, end(k) - 1))

\* refine_parsed_data(parsed_item), every step of it
RefineItem(parsed_item) ==
    LET raw_text == Strip(parsed_item.text)
        url_val == StripChars(parsed_item.url, Trimmed)
        doi == StripChars(parsed_item.doi, Trimmed)
        title == Patch2(Patch1(StripChars(parsed_item.title, Trimmed)))
        item == [parsed_item EXCEPT !.url = url_val, !.doi = doi,
                                    !.date = StripChars(@, Trimmed), !.title = title]
        doi_match == DoiInUrl(url_val)
    IN [item EXCEPT !.title = Salvage(item, raw_text, title),
                    !.doi = IF doi_match.found THEN StripChars(doi_match.group, {"."})
                            ELSE doi]

\* ------------------------------------------------------------------ retry helper
MAX_RETRIES == 2

StatusOf(reply) ==
    IF reply \in {"200", "200_notjson"} THEN "200"
    ELSE IF reply = "transport" THEN "none"
    ELSE reply

Returned(requests, data, status) ==
    [requests |-> requests, raised |-> FALSE, data |-> data, status |-> status]

\* the loop from its k-th turn on; guarded is the try/except around the turn
RECURSIVE RetryLoop(_, _, _)
RetryLoop(replies, k, guarded) ==
    IF k > MAX_RETRIES THEN Returned(MAX_RETRIES, None, "Error")
    ELSE IF replies[k] = "200" THEN Returned(k, "json", "OK")
    ELSE IF replies[k] = "401" THEN Returned(k, None, "Auth Error (401)")
    ELSE IF replies[k] = "403" THEN Returned(k, None, "Auth Error (403)")
    ELSE IF replies[k] \in {"transport", "200_notjson"} /\ ~guarded
    THEN [requests |-> k, raised |-> TRUE, data |-> None, status |-> "none"]
    ELSE RetryLoop(replies, k + 1, guarded)

call_external_api_unguarded(replies) == RetryLoop(replies, 1, FALSE)

\* _call_external_api_with_retry(url, params, headers) against the replies
\* the server would give to successive requests
call_external_api_with_retry(replies) == RetryLoop(replies, 1, TRUE)

\* ------------------------------------------------------------------ environment
\* The reply of source c for reference i: any reply, or with stable sources
\* the one reply the source gives to that request.
Draw(i, c, replies) ==
    IF env[i][c] = "any" THEN replies ELSE {env[i][c]}

Outcome(out) ==
    IF out.raised THEN "raise" ELSE IF out.url # NoUrl THEN "hit" ELSE "none"

\* worker i called connector c and got out; st is the stage's effect
Called(i, c, reply, out, st) ==
    /\ res' = [res EXCEPT ![i] = st.res]
    /\ pc' = [pc EXCEPT ![i] = st.pc]
    /\ calls' = [calls EXCEPT ![i] = Append(@, <<c, Outcome(out)>>)]
    /\ exc' = [exc EXCEPT ![i] = IF out.raised THEN @ \cup {<<c, reply>>} ELSE @]

\* the stage's guard was false: no connector is called
Skipped(i, next) ==
    /\ pc' = [pc EXCEPT ![i] = next]
    /\ UNCHANGED <<res, calls, exc>>

dispatch == <<phase, ui, runs, results_buffer, collected, results, prev, errors>>

\* ------------------------------------------------------------------ check_single_task
\* The pool hands the task to a free worker thread; lines 170-176.
Start(i) ==
    /\ pc[i] = "queued"
    /\ Cardinality({j \in Workers : pc[j] \notin Finished \cup {"queued"}}) < MaxWorkers
    /\ pc' = [pc EXCEPT ![i] = "local"]
    /\ res' = [res EXCEPT ![i] = NewRes(i)]
    /\ struct_list' = [struct_list EXCEPT ![i] = ParsedItemAfterRefine(@)]
    /\ UNCHANGED <<calls, exc, shared, dispatch>>

\* 1. Local DB
StageLocal(i) ==
    LET
        \* search_local_database: the best row reaches the threshold, or none does.
        LocalReplies == {"row", "none"}
    IN
        /\ pc[i] = "local"
        /\ LET ref == Ref(i) IN
           IF HasCJK(ref) /\ local_df /\ ref.title # ""
           THEN \E reply \in Draw(i, "search_local_database", LocalReplies) :
                    LET out == search_local_database(local_df, ref.title, reply)
                    IN Called(i, "search_local_database", reply, out, LocalStep(res[i], out))
           ELSE Skipped(i, "doi")
        /\ UNCHANGED <<config, dispatch>>

\* 2. Crossref by DOI
StageDoi(i) ==
    LET
        \* GET api.crossref.org/works/<doi>
        DoiReplies == {"conn", "http", "ok_match", "ok_mismatch"}
    IN
        /\ pc[i] = "doi"
        /\ LET ref == Ref(i) IN
           IF ref.doi
           THEN \E reply \in Draw(i, "search_crossref_by_doi", DoiReplies) :
                    LET out == search_crossref_by_doi(ref.doi, ref.title, reply)
                    IN Called(i, "search_crossref_by_doi", reply, out, DoiStep(res[i], out))
           ELSE Skipped(i, "text")
        /\ UNCHANGED <<config, dispatch>>

\* 2. Crossref by text
StageText(i) ==
    LET
        \* GET api.crossref.org/works?query.bibliographic=...; "ok_notitle" is an item
        \* whose 'title' is the empty list.
        TextReplies == {"transport", "auth", "ok_empty", "ok_mismatch", "ok_match", "ok_notitle"}
    IN
        /\ pc[i] = "text"
        /\ \E reply \in Draw(i, "search_crossref_by_text", TextReplies) :
               LET out == search_crossref_by_text(SearchQuery(Ref(i)), reply)
               IN Called(i, "search_crossref_by_text", reply, out, TextStep(res[i], out))
        /\ UNCHANGED <<config, dispatch>>

\* 3. Scopus
StageScopus(i) ==
    LET
        \* GET api.elsevier.com/content/search/scopus; "ok_nulltitle" is an entry whose
        \* 'dc:title' is null.
        ScopusReplies == {"transport", "auth", "ok_empty", "ok_mismatch", "ok_match", "ok_nulltitle"}
    IN
        /\ pc[i] = "scopus"
        /\ IF scopus_key
           THEN \E reply \in Draw(i, "search_scopus_by_title", ScopusReplies) :
                    LET out == search_scopus_by_title(scopus_key, reply)
                    IN Called(i, "search_scopus_by_title", reply, out, ScopusStep(res[i], out))
           ELSE Skipped(i, "scholar")
        /\ UNCHANGED <<config, dispatch>>

\* the one-entry list of (api_func, step_name): Google Scholar
StageScholar(i) ==
    LET
        \* GoogleSearch(...).get_dict(): "organic_hit" has a result among the first
        \* three whose title holds the two keywords, "organic_miss" has none.
        ScholarReplies == {"transport", "no_organic", "organic_hit", "organic_miss"}
    IN
        /\ pc[i] = "scholar"
        /\ \E reply \in Draw(i, "search_scholar_by_title", ScholarReplies) :
               LET out == search_scholar_by_title(serpapi_key, reply)
               IN Called(i, "search_scholar_by_title", reply, out, ScholarStep(res[i], out))
        /\ UNCHANGED <<config, dispatch>>

\* 4. Suggestion
StageSuggestion(i) ==
    LET
        \* GoogleSearch(...).get_dict() of the raw-text lookup
        RefTextReplies == {"transport", "no_organic", "organic_match", "organic_mismatch"}
    IN
        /\ pc[i] = "suggestion"
        /\ IF serpapi_key
           THEN \E reply \in Draw(i, "search_scholar_by_ref_text", RefTextReplies) :
                    LET out == search_scholar_by_ref_text(serpapi_key, Ref(i).title, reply)
                    IN Called(i, "search_scholar_by_ref_text", reply, out, SuggestionStep(res[i], out))
           ELSE Skipped(i, "website")
        /\ UNCHANGED <<config, dispatch>>

\* 5. Website check, and return res
StageWebsite(i) ==
    /\ pc[i] = "website"
    /\ LET parsed_url == Ref(i).url IN
       IF parsed_url # NoUrl /\ StartsWith(parsed_url, Http)
       THEN \E reply \in Draw(i, "check_url_availability", HeadReplies) :
                LET ok == check_url_availability(parsed_url, reply)
                    out == Ret(IF ok THEN parsed_url ELSE NoUrl, "bool")
                IN Called(i, "check_url_availability", reply, out,
                          WebsiteStep(res[i], parsed_url, ok))
       ELSE Skipped(i, "returned")
    /\ UNCHANGED <<config, dispatch>>

\* ------------------------------------------------------------------ run handler
Idle == phase \in {"idle", "done", "crashed", "parse_error"}

\* parse_references_with_anystyle: st.error for every line whose parse raised
LineErrors == [k \in 1 .. parse_raised |-> "line"]

\* the button with an empty text area: a warning, nothing else
ClickNoInput ==
    /\ Idle /\ runs < MaxRuns
    /\ raw_input = ""
    /\ ui' = "warning"
    /\ errors' = <<>>
    /\ runs' = runs + 1
    /\ UNCHANGED <<config, phase, pc, res, calls, exc, results_buffer, collected,
                   results, prev>>

\* the parser returned no reference
ClickParseFail ==
    /\ Idle /\ runs < MaxRuns
    /\ raw_input # "" /\ struct_list = <<>>
    /\ prev' = results
    /\ results' = <<>>
    /\ phase' = "parse_error"
    /\ ui' = "error"
    /\ errors' = Append(LineErrors, "batch")
    /\ runs' = runs + 1
    /\ UNCHANGED <<config, pc, res, calls, exc, results_buffer, collected>>

\* results cleared, references parsed, one task submitted per reference
Click ==
    /\ Idle /\ runs < MaxRuns
    /\ raw_input # "" /\ struct_list # <<>>
    /\ prev' = results
    /\ results' = <<>>
    /\ results_buffer' = <<>>
    /\ collected' = {}
    /\ pc' = [i \in Workers |-> "queued"]
    /\ res' = [i \in Workers |-> NewRes(i)]
    /\ calls' = [i \in Workers |-> <<>>]
    /\ exc' = [i \in Workers |-> {}]
    /\ phase' = "running"
    /\ ui' = "status"
    /\ errors' = LineErrors
    /\ runs' = runs + 1
    /\ UNCHANGED config

ResultsStreamed(stored, buffer) == buffer

\* results_buffer.append(future.result()) fills the local list; what
\* st.session_state.results holds stays as it is
ResultsWhileCollecting(stored, buffer) == stored

\* as_completed yields a finished future; future.result() returns the
\* task's result or raises what the task raised
Collect(i) ==
    /\ phase = "running"
    /\ i \notin collected
    /\ pc[i] \in Finished
    /\ collected' = collected \cup {i}
    /\ IF pc[i] = "returned"
       THEN /\ results_buffer' = Append(results_buffer, res[i])
            /\ phase' = phase
       ELSE /\ results_buffer' = results_buffer
            /\ phase' = "unwinding"
    /\ results' = ResultsWhileCollecting(results, results_buffer')
    /\ UNCHANGED <<config, ui, runs, pc, res, calls, exc, prev, errors>>

\* every future yielded: the pool is left and the sorted results are stored
Publish ==
    /\ phase = "running"
    /\ collected = Workers
    /\ results' = SortById(results_buffer)
    /\ phase' = "done"
    /\ ui' = "complete"
    /\ UNCHANGED <<config, runs, pc, res, calls, exc, results_buffer, collected, prev,
                   errors>>

\* the exception leaves the with-block once the pool has shut down, which
\* waits for the tasks still running; the handler ends without storing
ExecutorExitOnError ==
    /\ phase = "unwinding"
    /\ \A j \in Workers : pc[j] \in Finished
    /\ phase' = "crashed"
    /\ ui' = "exception"
    /\ UNCHANGED <<config, runs, pc, res, calls, exc, results_buffer, collected,
                   results, prev, errors>>

\* ------------------------------------------------------------------ specifications
\* sources free to answer anything, each time
AnyReply == [i \in Workers |-> [c \in Connectors |-> "any"]]

InitRest ==
    LET
        \* no function is evaluated on its own
        NoProbe == [fn |-> "none"]
    IN
        /\ probe = NoProbe
        /\ errors = <<>>
        /\ phase = "idle"
        /\ ui = "none"
        /\ runs = 0
        /\ pc = [i \in Workers |-> "returned"]
        /\ res = [i \in Workers |-> NewRes(i)]
        /\ calls = [i \in Workers |-> <<>>]
        /\ exc = [i \in Workers |-> {}]
        /\ results_buffer = <<>>
        /\ collected = {}
        /\ results = <<>>
        /\ prev = <<>>

\* One pasted reference of any shape (or none, or one the parser loses),
\* any credentials.
Init ==
    /\ raw_input \in {"", "refs"}
    /\ parse_raised = 0
    /\ struct_list \in {<<>>} \cup {<<s>> : s \in RefShapes}
    /\ raw_input = "" => struct_list = <<>>
    /\ local_df \in BOOLEAN
    /\ scopus_key \in BOOLEAN
    /\ serpapi_key \in BOOLEAN
    /\ env = AnyReply
    /\ InitRest

Next ==
    \/ ClickNoInput
    \/ ClickParseFail
    \/ Click
    \/ \E i \in Workers : Start(i)
    \/ \E i \in Workers : StageLocal(i)
    \/ \E i \in Workers : StageDoi(i)
    \/ \E i \in Workers : StageText(i)
    \/ \E i \in Workers : StageScopus(i)
    \/ \E i \in Workers : StageScholar(i)
    \/ \E i \in Workers : StageSuggestion(i)
    \/ \E i \in Workers : StageWebsite(i)
    \/ \E i \in Workers : Collect(i)
    \/ Publish
    \/ ExecutorExitOnError

Spec == Init /\ [][Next]_vars

\* A batch of NRefs references: a thesis with a CJK title, a DOI and a page
\* url, or a plain article; all credentials and the local table present.
BatchShapes ==
    {[title |-> "cjk", doi |-> TRUE, url |-> DottedUrl, text |-> PaddedText],
     [title |-> "latin", doi |-> FALSE, url |-> NoUrl, text |-> PlainText]}

InitBatch ==
    /\ raw_input \in {"", "refs"}
    /\ parse_raised = 0
    /\ struct_list \in {<<>>} \cup [1 .. NRefs -> BatchShapes]
    /\ raw_input = "" => struct_list = <<>>
    /\ local_df = TRUE
    /\ scopus_key = TRUE
    /\ serpapi_key = TRUE
    /\ env = AnyReply
    /\ InitRest

SpecBatch == InitBatch /\ [][Next]_vars

\* The same batch against sources that answer a repeated request alike: for
\* each reference no source has a record, or Crossref has it, or Crossref
\* answers with an item without title, or Scholar is unreachable.
Scenario(doi, text, scholar, head) ==
    [c \in Connectors |->
        CASE c = "search_local_database" -> "none"
          [] c = "search_crossref_by_doi" -> doi
          [] c = "search_crossref_by_text" -> text
          [] c = "search_scopus_by_title" -> "ok_mismatch"
          [] c = "search_scholar_by_title" -> scholar
          [] c = "search_scholar_by_ref_text" -> "organic_match"
          [] OTHER -> head]

Scenarios ==
    {Scenario("http", "ok_empty", "no_organic", "4xx"),
     Scenario("ok_mismatch", "ok_match", "organic_hit", "ok"),
     Scenario("conn", "ok_notitle", "no_organic", "ok"),
     Scenario("http", "transport", "transport", "ok")}

InitStable ==
    /\ raw_input \in {"", "refs"}
    /\ parse_raised = 0
    /\ struct_list \in {<<>>} \cup [1 .. NRefs -> BatchShapes]
    /\ raw_input = "" => struct_list = <<>>
    /\ local_df = TRUE
    /\ scopus_key = TRUE
    /\ serpapi_key = TRUE
    /\ env \in [Workers -> Scenarios]
    /\ InitRest

SpecStable == InitStable /\ [][Next]_vars

\* One pasted reference beside lines whose parse raises, every credential.
MaxLineErrors == 2

InitParse ==
    /\ raw_input \in {"", "refs"}
    /\ struct_list \in {<<>>} \cup {<<s>> : s \in BatchShapes}
    /\ raw_input = "" => struct_list = <<>>
    /\ parse_raised \in 0 .. MaxLineErrors
    /\ raw_input = "" => parse_raised = 0
    /\ local_df = TRUE
    /\ scopus_key = TRUE
    /\ serpapi_key = TRUE
    /\ env = AnyReply
    /\ InitRest

SpecParse == InitParse /\ [][Next]_vars

\* ------------------------------------------------------------------ functions on their own
\* the result of the probe: none before the evaluation, then one
Pending == <<>>
Out == probe.out[1]
Evaluated(fn) == probe.fn = fn /\ probe.out # Pending

\* the probe is evaluated once
Evaluate(fn, out) ==
    /\ probe.fn = fn
    /\ probe.out = Pending
    /\ probe' = [probe EXCEPT !.out = <<out>>]
    /\ UNCHANGED <<raw_input, struct_list, local_df, scopus_key, serpapi_key, env>>
    /\ UNCHANGED <<pc, res, calls, exc, parse_raised>>
    /\ UNCHANGED dispatch

\* no run of the handler beside the probe
InitProbe ==
    /\ raw_input = ""
    /\ struct_list = <<>>
    /\ local_df = FALSE
    /\ scopus_key = FALSE
    /\ serpapi_key = FALSE
    /\ env = AnyReply
    /\ phase = "idle"
    /\ ui = "none"
    /\ runs = 0
    /\ pc = <<>>
    /\ res = <<>>
    /\ calls = <<>>
    /\ exc = <<>>
    /\ results_buffer = <<>>
    /\ collected = {}
    /\ results = <<>>
    /\ prev = <<>>
    /\ parse_raised = 0
    /\ errors = <<>>

OtherLink == Http \o <<":", "/", "/", "o", "/", "p">>

\* GoogleSearch(...).get_dict(): it raises, or it answers without or with the
\* key organic_results
SearchReplies ==
    LET
        OrganicEntries ==
            {[title |-> <<"R", "A", "G", " ", "D", "o", "c", "u", "m", "e", "n", "t", " ", "I", "n", "d", "e", "x">>, link |-> ScholarLink],
             [title |-> <<"G", "r", "a", "p", "h", " ", "N", "e", "t", "s">>, link |-> OtherLink],
             [title |-> <<"D", "o", "c", "u", "m", "e", "n", "t", " ", "Q", "A">>, link |-> OtherLink]}
        OrganicLists == UNION {[1 .. n -> OrganicEntries] : n \in 0 .. MaxOrganic}
    IN
        [kind : {"transport", "no_organic"}, organic_results : {<<>>}]
            \cup [kind : {"organic"}, organic_results : OrganicLists]

InitScholar ==
    LET
        SampleTitles ==
            {<<"G", "r", "a", "p", "h", " ", "N", "e", "t", "s">>,
             <<"R", "A", "G", " ", "f", "o", "r", " ", "D", "o", "c", "u", "m", "e", "n", "t", " ", "Q", "A">>,
             <<"D", "o", "c", "-", "R", "A", "G", "!">>}
        SampleAuthors == {<<>>, <<"K", "o">>}
        SampleRawTexts ==
            {<<>>,
             <<"K", "o", ".", " ", "G", "r", "a", "p", "h", " ", "N", "e", "t", "s", ".">>,
             <<"K", "o", ".", " ", "G", "r", "a", "p", "h", " ", "N", "e", "t", "s", ".", " ", "i", "c", "a", "i", "t", " ", " ", "2", "0", "2", "4", ".">>}
    IN
        /\ InitProbe
        /\ probe \in [fn : {"search_scholar_by_title"}, title : SampleTitles,
                      author : SampleAuthors, raw_text : SampleRawTexts,
                      reply : SearchReplies, out : {Pending}]

EvalScholar ==
    Evaluate("search_scholar_by_title",
             ScholarByTitle(probe.title, probe.author, probe.raw_text, probe.reply))

SpecScholar == InitScholar /\ [][EvalScholar]_vars

UrlParts ==
    LET
        \* a URL by its parts: scheme, host and path, and the URL absent
        Schemes == {<<>>, <<"h", "t", "t", "p", ":", "/", "/">>, <<"h", "t", "t", "p", "s", ":", "/", "/">>, <<"f", "t", "p", ":", "/", "/">>}
        Hosts == {<<"x">>, <<"x", ".", "o", "r", "g">>}
        Paths == {<<>>, <<"/">>, <<"/", "p">>, <<"/", "p", "/">>, <<"/", "p", "/", "q">>}
        NoParts == [scheme |-> <<>>, host |-> <<>>, path |-> <<>>]
    IN
        [scheme : Schemes, host : Hosts, path : Paths] \cup {NoParts}
UrlOf(parts) == parts.scheme \o parts.host \o parts.path

InitUrl ==
    /\ InitProbe
    /\ probe \in [fn : {"check_url_availability"}, url : UrlParts,
                  reply : HeadReplies, out : {Pending}]

EvalUrl ==
    Evaluate("check_url_availability", check_url_availability(UrlOf(probe.url), probe.reply))

SpecUrl == InitUrl /\ [][EvalUrl]_vars

MaxStrLen == 3
ShortStrings ==
    LET
        MatchAlphabet == {"a", "b", " ", "."}
    IN
        UNION {[1 .. n -> MatchAlphabet] : n \in 0 .. MaxStrLen}
LongTitles ==
    {<<"A", " ", "S", "t", "u", "d", "y", " ", "o", "f", " ", "D", "e", "e", "p", " ", "N", "e", "t", "s", " ", "i", "n", " ", "2", "0", "2", "0">>,
     <<"a", " ", "s", "t", "u", "d", "y", " ", "o", "f", " ", "d", "e", "e", "p", " ", "n", "e", "t", "s">>,
     <<"D", "e", "e", "p", " ", "N", "e", "t", "s">>,
     <<"S", "t", "u", "d", "y", " ", "o", "f", " ", "N", "e", "t", "s", ".", " ", "a", "r", "X", "i", "v">>}
MatchInputs == ShortStrings \cup LongTitles

InitMatch ==
    /\ InitProbe
    /\ probe \in [fn : {"_is_match"}, query : MatchInputs, result : MatchInputs,
                  out : {Pending}]

EvalMatch == Evaluate("_is_match", is_match(probe.query, probe.result))

SpecMatch == InitMatch /\ [][EvalMatch]_vars

MaxAuthorLen == 3
MaxAuthors == 2
QueryAuthors ==
    LET
        AuthorAlphabet == {"K", "o", ",", " "}
    IN
        UNION {[1 .. n -> AuthorAlphabet] : n \in 0 .. MaxAuthorLen}
CandidateLists ==
    LET
        CandidateAuthors ==
            {PlainAuthor(<<"k", "o">>), PlainAuthor(<<"O", "k">>)}
                \cup {DictAuthor(f, g, n) : f \in {<<>>, <<"K", "O">>}, g \in {<<>>, <<"K", "o">>},
                                            n \in {<<>>, <<"J", " ", "K", "o">>}}
    IN
        UNION {[1 .. n -> CandidateAuthors] : n \in 0 .. MaxAuthors}

InitAuthor ==
    /\ InitProbe
    /\ probe \in [fn : {"_check_author_match"}, query_author : QueryAuthors,
                  result_authors_list : CandidateLists, out : {Pending}]

EvalAuthor ==
    Evaluate("_check_author_match",
             check_author_match(probe.query_author, probe.result_authors_list))

SpecAuthor == InitAuthor /\ [][EvalAuthor]_vars

ParsedItems ==
    LET
        ItemTitles ==
            {<<>>,
             <<"A", "b", "c">>,
             <<"&", " ", "H", "e", "i", "n", "z", "l", ",", " ", "A", ".", "(", "2", "0", "2", "1", ")", ".", " ", "R", "e", "a", "l", " ", "T", "i", "t", "l", "e">>,
             <<"a", "n", "d", " ", "H", "e", "i", "n", "z", "l", ",", " ", "A", ".", "(", "2", "0", "2", "1", ")", ".", " ", "R", "e", "a", "l", " ", "T", "i", "t", "l", "e">>,
             <<"2", "0", "2", "4", ".", " ", "D", "e", "e", "p", " ", "N", "e", "t", "s", ".", " ", "a", "r", "X", "i", "v", ":", "1", "2", "3">>,
             <<"G", "r", "a", "p", "h", " ", "N", "e", "t", "s", " ", "f", "o", "r", " ", "a", "l", "l", ".">>}
        ItemTexts ==
            {<<>>,
             <<"K", "o", ",", " ", "K", ".", " ", "2", "0", "2", "0", ".", " ", "G", "r", "a", "p", "h", " ", "N", "e", "t", "s", " ", "f", "o", "r", " ", "a", "l", "l">>,
             <<"G", "N", " ", "2", ":", " ", "G", "r", "a", "p", "h", " ", "N", "e", "t", "s", ",", " ", "K", "o", " ", "2", "0", "2", "0">>}
        ItemDates == {<<>>, <<"2", "0", "2", "0">>}
        ItemUrls ==
            {<<>>,
             <<"h", "t", "t", "p", ":", "/", "/", "x", "/", "p">>,
             <<"h", "t", "t", "p", "s", ":", "/", "/", "d", "o", "i", ".", "o", "r", "g", "/", "1", "0", ".", "2", "0", "0", "0", "/", "b", ".">>}
        ItemDois == {<<>>, <<"1", "0", ".", "1", "0", "0", "0", "/", "a", ".">>}
        ItemPublishers == {<<>>, <<"P", "u", "b">>}
        ItemJournals == {<<>>, <<"J", "o", "u", "r", "n", "a", "l", " ", "o", "f", " ", "G", "r", "a", "p", "h", " ", "N", "e", "t", "s">>}
    IN
        [title : ItemTitles, text : ItemTexts, date : ItemDates, url : ItemUrls,
         doi : ItemDois, publisher : ItemPublishers, container_title : {<<>>},
         journal : ItemJournals]

InitRefine ==
    /\ InitProbe
    /\ probe \in [fn : {"refine_parsed_data"}, parsed_item : ParsedItems, out : {Pending}]

EvalRefine == Evaluate("refine_parsed_data", RefineItem(probe.parsed_item))

SpecRefine == InitRefine /\ [][EvalRefine]_vars

MaxReplies == 3

InitRetry ==
    LET
        \* requests.get(...): it raises, or it answers with a status; a 200 comes
        \* with a body that response.json() parses or raises on
        HttpReplies == {"transport", "200", "200_notjson", "401", "403", "500"}
    IN
        /\ InitProbe
        /\ probe \in [fn : {"_call_external_api_with_retry"},
                      replies : [1 .. MaxReplies -> HttpReplies], out : {Pending}]

EvalRetry ==
    Evaluate("_call_external_api_with_retry", call_external_api_with_retry(probe.replies))

SpecRetry == InitRetry /\ [][EvalRetry]_vars

MaxRows == 2
\* local_df: None, or the titles of its title column
Tables ==
    LET
        DbTitles ==
            {<<"U+7532", "U+4E59", "U+4E19", "U+4E01", "U+620A", "U+5E9A">>,
             <<"U+7532", "U+4E59", "U+4E19", "U+4E01", "U+620A", "U+5DF1", "U+5E9A", "U+8F9B", "U+58EC", "U+7678">>,
             <<"G", "r", "a", "p", "h", " ", "N", "e", "t", "s">>,
             <<"-">>}
    IN
        {[loaded |-> FALSE, rows |-> <<>>]}
            \cup [loaded : {TRUE}, rows : UNION {[1 .. n -> DbTitles] : n \in 0 .. MaxRows}]

InitLocal ==
    LET
        StageTitles ==
            {<<>>,
             <<"U+7532", "U+4E59">>,
             <<"U+7532", "U+4E59", "U+4E19", "U+4E01", "U+620A", "U+5DF1">>,
             <<"U+7532", "U+4E59", "U+4E19", "U+4E01", "U+620A", "U+5DF1", "U+5E9A", "U+8F9B", "U+58EC">>,
             <<"G", "r", "a", "p", "h", " ", "N", "e", "t", "s">>}
        StageTexts ==
            {<<"K", "o", " ", "2", "0", "2", "0", " ", "U+7532", "U+4E59">>,
             <<"K", "o", " ", "2", "0", "2", "0">>}
    IN
        /\ InitProbe
        /\ probe \in [fn : {"search_local_database"}, title : StageTitles, text : StageTexts,
                      df : Tables, out : {Pending}]

EvalLocal ==
    Evaluate("search_local_database", LocalStage(probe.title, probe.text, probe.df))

SpecLocal == InitLocal /\ [][EvalLocal]_vars

\* ------------------------------------------------------------------ claims
Fn(call) == call[1]
Hit(call) == call[2] = "hit"
CalledFn(i, c) == \E k \in 1 .. Len(calls[i]) : Fn(calls[i][k]) = c

\* the labels of the stages that end the cascade when they accept
AcceptSteps ==
    {"0. Local Database", "1. Crossref (DOI)", "1. Crossref (Search)", "2. Scopus",
     "5. Google Scholar"}

ConnectorOfStep(step) ==
    CASE step = "0. Local Database" -> "search_local_database"
      [] step = "1. Crossref (DOI)" -> "search_crossref_by_doi"
      [] step = "1. Crossref (Search)" -> "search_crossref_by_text"
      [] step = "2. Scopus" -> "search_scopus_by_title"
      [] OTHER -> "search_scholar_by_title"

\* C1 - Short-circuit: once one of the stages Local DB, Crossref DOI, Crossref
\* text, Scopus, Scholar has accepted a candidate for a reference, the task
\* has returned and the accepting call is the last connector call made for
\* that reference (and the only one that accepted): no later connector, the
\* Suggestion lookup and the Direct URL check included, is invoked.
ShortCircuit ==
    \A i \in Workers :
        res[i].found_at_step \in AcceptSteps =>
            /\ pc[i] = "returned"
            /\ calls[i] # <<>>
            /\ calls[i][Len(calls[i])] = <<ConnectorOfStep(res[i].found_at_step), "hit">>
            /\ \A k \in 1 .. Len(calls[i]) - 1 : ~Hit(calls[i][k])

\* Scopus accepted for a reference with a page url while the Scholar key is
\* set: the Scholar search, the Suggestion lookup and the url check were due.
ShortCircuitWitness ==
    \E i \in Workers :
        /\ res[i].found_at_step = "2. Scopus"
        /\ serpapi_key
        /\ struct_list[i].url = PageUrl
        /\ phase = "done"

\* C2 - Order stability: when the run handler has ended for a list of N
\* parsed references, st.session_state.results holds exactly N results and
\* the result at position i has id i, whatever order the futures completed in.
OrderStability ==
    phase \in {"done", "crashed"} =>
        /\ Len(results) = Len(struct_list)
        /\ \A k \in 1 .. Len(results) : results[k].id = k

\* C3 - In every result check_single_task returns, and in every stored
\* result, found_at_step is non-null if and only if sources is non-empty.
StepIffSources ==
    /\ \A i \in Workers :
           pc[i] = "returned" => (res[i].found_at_step # None <=> res[i].sources # {})
    /\ \A k \in 1 .. Len(results) :
           results[k].found_at_step # None <=> results[k].sources # {}

\* a returned result of the dead-link branch: both keys set
StepIffSourcesWitness ==
    \E i \in Workers :
        /\ pc[i] = "returned"
        /\ runs > 0
        /\ res[i].found_at_step = "6. Website (Link Failed)"
        /\ res[i].sources # {}

\* C4 (as claimed) - suggestion is non-null only in a result whose sources
\* are empty and whose found_at_step is null, also for a reference that
\* reaches the Direct URL stage after the Suggestion lookup.
SuggestionOnlyUnresolved ==
    \A i \in Workers :
        (pc[i] = "returned" /\ res[i].suggestion # NoUrl) =>
            (res[i].sources = {} /\ res[i].found_at_step = None)

\* C4 (amended) - suggestion is non-null only when none of the stages before
\* the Suggestion lookup accepted: no connector other than the lookup itself
\* and the url check has returned a candidate, and found_at_step is null or
\* one of the two labels of the Direct URL stage.
SuggestionOnlyBeforeDirectUrl ==
    \A i \in Workers :
        res[i].suggestion # NoUrl =>
            /\ res[i].found_at_step \in
                   {None, "6. Website / Direct URL", "6. Website (Link Failed)"}
            /\ \A k \in 1 .. Len(calls[i]) :
                   Hit(calls[i][k]) =>
                       Fn(calls[i][k]) \in {"search_scholar_by_ref_text", "check_url_availability"}

\* a suggestion next to a live direct link
SuggestionWitness ==
    \E i \in Workers :
        /\ pc[i] = "returned"
        /\ res[i].suggestion # NoUrl
        /\ res[i].found_at_step = "6. Website / Direct URL"

NoStageAccepted(i) ==
    /\ pc[i] = "returned"
    /\ res[i].found_at_step \notin AcceptSteps
    /\ CalledFn(i, "search_scholar_by_title")

\* C5 - Cascade order: for a reference no stage accepts, the Semantic Scholar
\* / OpenAlex connector is attempted after the Scopus call and before the
\* Scholar web search.
CascadeTableOrder ==
    \A i \in Workers :
        NoStageAccepted(i) =>
            \E k \in 1 .. Len(calls[i]) :
                /\ Fn(calls[i][k]) \in {"search_s2_by_title", "search_openalex_by_title"}
                /\ \A j \in 1 .. Len(calls[i]) :
                       /\ Fn(calls[i][j]) = "search_scopus_by_title" => j < k
                       /\ Fn(calls[i][j]) = "search_scholar_by_title" => k < j

\* C6 - No connector raises an exception to check_single_task: every
\* transport failure, auth failure and empty or incomplete response ends in
\* a returned 'no candidate'.
NoConnectorRaises ==
    \A i \in Workers : exc[i] = {}

\* C7 - Sibling isolation: when the run handler has ended, the result of
\* every reference whose task returned is among the stored results, also
\* when the task of another reference raised.
SiblingIsolation ==
    phase \in {"done", "crashed"} =>
        \A i \in Workers :
            pc[i] = "returned" => \E k \in 1 .. Len(results) : results[k] = res[i]

LastCall(i) == calls[i][Len(calls[i])]

DeadLink(i) ==
    /\ pc[i] = "returned"
    /\ calls[i] # <<>>
    /\ LastCall(i) = <<"check_url_availability", "none">>

\* C8 (as claimed) - Dead link is 'no candidate': when every earlier stage
\* rejected and check_url_availability returns False, the result ends with
\* empty sources and null found_at_step.
DeadLinkNoCandidate ==
    \A i \in Workers :
        DeadLink(i) => (res[i].sources = {} /\ res[i].found_at_step = None)

\* C8 (amended) - when every earlier stage rejected and
\* check_url_availability returns False for the reference's own http url, the
\* result ends with sources = {"Direct Link (Dead)": url} and found_at_step =
\* "6. Website (Link Failed)"; sources are empty and found_at_step null at the
\* end only when the Direct URL stage was not entered.
DeadLinkLabelled ==
    \A i \in Workers :
        /\ DeadLink(i) =>
               /\ res[i].sources = {<<"Direct Link (Dead)", Ref(i).url>>}
               /\ res[i].found_at_step = "6. Website (Link Failed)"
        /\ (pc[i] = "returned" /\ res[i].found_at_step = None) =>
               /\ res[i].sources = {}
               /\ ~CalledFn(i, "check_url_availability")

\* the url of a bare host, which check_url_availability turns down unasked
DeadLinkWitness ==
    \E i \in Workers :
        /\ DeadLink(i)
        /\ struct_list[i].url = HostUrl
        /\ res[i].found_at_step = "6. Website (Link Failed)"

\* C9 - An absent credential disables its connector: without scopus_key the
\* Scopus connector is not invoked, and without serpapi_key neither the
\* Scholar web search nor the Suggestion lookup is invoked.
KeylessConnectorsIdle ==
    \A i \in Workers :
        /\ ~scopus_key => ~CalledFn(i, "search_scopus_by_title")
        /\ ~serpapi_key =>
               /\ ~CalledFn(i, "search_scholar_by_title")
               /\ ~CalledFn(i, "search_scholar_by_ref_text")

Outcomes(rs) == [k \in 1 .. Len(rs) |-> <<rs[k].found_at_step, rs[k].sources>>]

\* C10 - Idempotence: against sources that answer a repeated request alike,
\* a run of the batch ends with the same found_at_step and sources for every
\* reference as the run before it, whatever the order the workers ran and
\* completed in and whatever the previous run had stored.
Idempotent ==
    (runs >= 2 /\ phase \in {"done", "crashed"}) => Outcomes(results) = Outcomes(prev)

\* a second run that stored results its futures completed out of order for
IdempotentWitness ==
    /\ runs = 2
    /\ phase = "done"
    /\ prev # <<>>
    /\ results_buffer[1].id = 2
    /\ results[1].found_at_step # results[2].found_at_step

\* C11 - Single pass to Done: every invocation of check_single_task ends by
\* returning a result, whatever the connectors answer, and on the way no
\* connector is invoked twice.
SinglePassToDone ==
    \A i \in Workers :
        /\ pc[i] # "raised"
        /\ \A k, l \in 1 .. Len(calls[i]) : k # l => Fn(calls[i][k]) # Fn(calls[i][l])

\* C12 - A Suggestion lookup result is only ever recorded in suggestion: the
\* link of the raw-text lookup never appears in sources, and for a reference
\* without DOI and url whose other connectors all returned none and whose
\* raw-text lookup returned a candidate, the returned result has empty
\* sources, null found_at_step and that candidate as suggestion.
SuggestionNeverASource ==
    \A i \in Workers :
        /\ \A p \in res[i].sources : p[2] # SimilarLink
        /\ (/\ pc[i] = "returned"
            /\ ~struct_list[i].doi
            /\ struct_list[i].url = NoUrl
            /\ calls[i] # <<>>
            /\ LastCall(i) = <<"search_scholar_by_ref_text", "hit">>) =>
               /\ res[i].sources = {}
               /\ res[i].found_at_step = None
               /\ res[i].suggestion = SimilarLink

\* Crossref, Scopus and Scholar were asked and had nothing, the raw-text
\* lookup had a candidate
SuggestionNeverASourceWitness ==
    \E i \in Workers :
        /\ pc[i] = "returned"
        /\ ~struct_list[i].doi
        /\ struct_list[i].url = NoUrl
        /\ Len(calls[i]) = 4
        /\ LastCall(i) = <<"search_scholar_by_ref_text", "hit">>
        /\ res[i].suggestion = SimilarLink

CrossrefTextAccepted(i) ==
    /\ pc[i] = "returned"
    /\ ~struct_list[i].doi
    /\ ~HasCJK(struct_list[i])
    /\ calls[i] = << <<"search_crossref_by_text", "hit">> >>

\* C13 (as claimed) - for a reference with no DOI and no CJK text whose
\* Crossref text candidate matches in title and author, the result has
\* found_at_step = "Crossref" and sources = {"Crossref": url}.
CrossrefScenarioLabel ==
    \A i \in Workers :
        CrossrefTextAccepted(i) =>
            /\ res[i].found_at_step = "Crossref"
            /\ res[i].sources = {<<"Crossref", CrossrefUrl>>}

\* C13 (amended) - in that scenario the result has found_at_step =
\* "1. Crossref (Search)" and sources = {"Crossref": url}.
CrossrefScenario ==
    \A i \in Workers :
        CrossrefTextAccepted(i) =>
            /\ res[i].found_at_step = "1. Crossref (Search)"
            /\ res[i].sources = {<<"Crossref", CrossrefUrl>>}

CrossrefScenarioWitness ==
    \E i \in Workers :
        /\ CrossrefTextAccepted(i)
        /\ struct_list[i].title = "latin"
        /\ phase = "done"


ScholarEvaluated == Evaluated("search_scholar_by_title")

\* C14 (as claimed): when the search of title and author yields no accepted
\* result, search_scholar_by_title searches the title alone before it returns
\* no candidate.
ScholarThreeStepFallback ==
    (ScholarEvaluated /\ ~Out.raised /\ Out.link = NoUrl) =>
        /\ Len(Out.queries) >= 2
        /\ Out.queries[2] = probe.title

\* C15 (as claimed): an organic result is returned as the accepted candidate
\* only if its title matches the query title under _is_match.
ScholarAcceptsOnlyMatch ==
    (ScholarEvaluated /\ Out.link # NoUrl) =>
        is_match(probe.title, Out.found_title)

\* C16 (as claimed): check_url_availability returns False for every URL whose
\* path is empty or "/", whatever the HTTP response, and returns True only for
\* a URL that answers with a success status.
BareRootRefused ==
    Evaluated("check_url_availability") =>
        /\ probe.url.path \in {<<>>, <<"/">>} => Out = FALSE
        /\ Out = TRUE => probe.reply = "ok"

MatchCompared ==
    Evaluated("_is_match") /\ probe.query # <<>> /\ probe.result # <<>>

Surname(query_author) == Lower(FirstToken(Strip(query_author)))

\* the names of a candidate as the claim reads them, and as the code compares them
NamesClaimed(auth) ==
    IF auth.kind = "dict" THEN {auth.family, auth.given, auth.name} ELSE {auth.text}
NamesCompared(auth) ==
    IF auth.kind = "dict" THEN {auth.family, auth.name} ELSE {auth.text}

\* C20 (as claimed): True for a query author shorter than 2 characters;
\* otherwise True if and only if the first surname occurs, whatever the case,
\* in some name of some candidate.
AuthorEquivalence ==
    Evaluated("_check_author_match") =>
        Out = \/ Len(probe.query_author) < 2
              \/ \E k \in 1 .. Len(probe.result_authors_list) :
                     \E n \in NamesClaimed(probe.result_authors_list[k]) :
                         Contains(Lower(n), Surname(probe.query_author))

\* C20 (amended): True for a query author shorter than 2 characters or with
\* an empty first surname; otherwise True if and only if the first surname
\* occurs, whatever the case, in a plain candidate or in the family or name
\* field of a record.
AuthorEquivalenceFamilyOrName ==
    Evaluated("_check_author_match") =>
        Out = \/ Len(probe.query_author) < 2
              \/ Surname(probe.query_author) = <<>>
              \/ \E k \in 1 .. Len(probe.result_authors_list) :
                     \E n \in NamesCompared(probe.result_authors_list[k]) :
                         Contains(Lower(n), Surname(probe.query_author))

\* a surname found in the family field of the second candidate in another case
AuthorEquivalenceWitness ==
    /\ Evaluated("_check_author_match")
    /\ Len(probe.query_author) >= 2
    /\ Surname(probe.query_author) = <<"k", "o">>
    /\ Len(probe.result_authors_list) = 2
    /\ probe.result_authors_list[1] = PlainAuthor(<<"O", "k">>)
    /\ probe.result_authors_list[2] = DictAuthor(<<"K", "O">>, <<>>, <<>>)
    /\ Out = TRUE

\* C17: no step of a batch changes the parsed references, the credentials or
\* the local table; the text of every result is the text of its reference
\* verbatim; and a step of a worker changes the result of that worker only.
ReadOnlyInputs ==
    [][/\ struct_list' = struct_list
       /\ local_df' = local_df
       /\ scopus_key' = scopus_key
       /\ serpapi_key' = serpapi_key
       /\ \A i \in DOMAIN res' : res'[i].text = struct_list[i].text
       /\ \A k \in DOMAIN results' : results'[k].text = struct_list[results'[k].id].text
       /\ (phase = "running" /\ phase' = "running") =>
              Cardinality({i \in DOMAIN res : res'[i] # res[i]}) <= 1]_vars

\* a published batch: a reference whose url was refined for the lookup and
\* whose text ends with a blank, beside a second reference
ReadOnlyInputsWitness ==
    /\ phase = "done"
    /\ Len(struct_list) = 2
    /\ \E k \in DOMAIN results :
           /\ struct_list[results[k].id].url = DottedUrl
           /\ struct_list[results[k].id].text = PaddedText
           /\ results[k].text = PaddedText
           /\ \E p \in results[k].sources : p[2] = PageUrl

\* C18 (as claimed): the only error shown for a batch is the parse failure,
\* once and only when no reference was parsed; with a reference parsed no
\* error is shown, neither for a line nor for a reference.
BatchErrorOnly ==
    /\ errors \in {<<>>, <<"batch">>}
    /\ errors = <<"batch">> => struct_list = <<>>
    /\ struct_list # <<>> => ui # "exception"

RefineEvaluated == Evaluated("refine_parsed_data")

\* the title as the cleaning of line 91 leaves it, and after the two patches
CleanedTitle == StripChars(probe.parsed_item.title, Trimmed)
PatchedTitle == Patch2(Patch1(CleanedTitle))

\* the remainder after name fragment, year and separator, of a title that
\* starts with "&" or with "and " read as "&"
ClaimedResidue(title) ==
    AuthorResidue(IF StartsWith(Lower(title), <<"a", "n", "d", " ">>)
                  THEN <<"&">> \o From(title, 4)
                  ELSE title)

\* C21 (as claimed): a title that starts with "&" or "and ", then a name
\* fragment, a 4-digit year, a separator and a remainder longer than 5
\* characters, is replaced by that remainder.
TitleRepair ==
    (/\ RefineEvaluated
     /\ ClaimedResidue(CleanedTitle).found
     /\ Len(Strip(ClaimedResidue(CleanedTitle).group)) > 5) =>
        Out.title = Patch2(Strip(ClaimedResidue(CleanedTitle).group))

\* C22 (as claimed): when a doi is present, the doi of the refined reference
\* is the input doi without the punctuation around it, whatever the url holds.
DoiKept ==
    (RefineEvaluated /\ probe.parsed_item.doi # <<>>) =>
        Out.doi = StripChars(probe.parsed_item.doi, Trimmed)

\* the candidate of step (c): the text after the year in the raw text
YearCandidate ==
    YearTitle([probe.parsed_item EXCEPT !.date = StripChars(@, Trimmed)],
              Strip(probe.parsed_item.text), <<>>)

\* C23 (as claimed): when the title is not empty but under 5 characters and
\* neither the abbreviation pattern nor a backup field yields a title, the
\* candidate after the year becomes the title if longer than 5 characters.
SalvageByYear ==
    (/\ RefineEvaluated
     /\ PatchedTitle # <<>> /\ Len(PatchedTitle) < 5
     /\ ~AbbrMatch(Strip(probe.parsed_item.text)).found
     /\ ~BackupTitle(probe.parsed_item).found
     /\ YearCandidate # <<>>) =>
        Out.title = YearCandidate

RetryEvaluated == Evaluated("_call_external_api_with_retry")

\* the attempts that end the call: those answered 401 or 403 and, of those
\* answered 200, all of them or the ones whose body parses
Decisive(parsed_only) ==
    {k \in 1 .. MAX_RETRIES :
        \/ probe.replies[k] \in {"401", "403"}
        \/ probe.replies[k] = "200"
        \/ ~parsed_only /\ StatusOf(probe.replies[k]) = "200"}

\* at most 2 requests, none past the first decisive attempt, no exception;
\* JSON and "OK" for a 200, no data and an auth diagnostic for 401 or 403,
\* no data and "Error" after 2 failed attempts
BoundedRetryFor(decisive) ==
    /\ ~Out.raised
    /\ Out.requests <= MAX_RETRIES
    /\ IF decisive = {}
       THEN Out.requests = MAX_RETRIES /\ Out.data = None /\ Out.status = "Error"
       ELSE /\ Out.requests = Min(decisive)
            /\ IF StatusOf(probe.replies[Min(decisive)]) = "200"
               THEN Out.data = "json" /\ Out.status = "OK"
               ELSE /\ Out.data = None
                    /\ Out.status \in {"Auth Error (401)", "Auth Error (403)"}

\* C24 (as claimed): the call stops at the first 200 response, returning the
\* JSON and "OK", or at the first 401/403 response.
BoundedRetryAny200 == RetryEvaluated => BoundedRetryFor(Decisive(FALSE))

\* C24 (amended): the call stops at the first 200 response whose body parses
\* as JSON, or at the first 401/403 response; a 200 response whose body does
\* not parse is a failed attempt like a transport failure.
BoundedRetry == RetryEvaluated => BoundedRetryFor(Decisive(TRUE))

\* a 200 whose body does not parse, then a 200 that is returned
BoundedRetryWitness ==
    /\ RetryEvaluated
    /\ probe.replies[1] = "200_notjson"
    /\ probe.replies[2] = "200"
    /\ Out.requests = 2
    /\ Out.status = "OK"

LocalEvaluated == Evaluated("search_local_database")

\* the row's title against the reference title, both cleaned: the
\* SequenceMatcher ratio reaches 0.85
RatioSimilar(k) ==
    RatioAtLeast(clean_title(probe.title), clean_title(probe.df.rows[k]), 85, 100)

\* C25 (as claimed): the stage is attempted only for a query with CJK
\* characters, and accepts only a row whose similarity to the title is at
\* least 0.85.
LocalAcceptsBySimilarity ==
    LocalEvaluated =>
        /\ Out.attempted => HasIdeograph(FullSearchQuery(probe.title, probe.text))
        /\ Out.match_row # 0 => Out.attempted /\ RatioSimilar(Out.match_row)

\* the complete list: one result per reference, in the order of the ids
CompleteSorted(rs) ==
    /\ Len(rs) = Len(struct_list)
    /\ \A k \in DOMAIN rs : rs[k].id = k

\* C26 - Atomic publication: after every step st.session_state.results is
\* empty or the complete id-sorted list of all results; a step that changes
\* it either clears it or stores the list once every future has been yielded.
AtomicPublication ==
    [][/\ results' = <<>> \/ CompleteSorted(results')
       /\ results' # results =>
              \/ results' = <<>>
              \/ /\ collected = Workers
                 /\ \A i \in Workers : pc[i] \in Finished]_vars

\* a second run under way: the list of the first run was cleared, one
\* future, of the second reference, has been yielded and nothing is stored
AtomicPublicationWitness ==
    /\ phase = "running"
    /\ runs = 2
    /\ CompleteSorted(prev) /\ Len(prev) = 2
    /\ Len(results_buffer) = 1
    /\ results_buffer[1].id = 2
    /\ results = <<>>

====
